---------------------------- MODULE Spec2Model ----------------------------
(***************************************************************************)
(* A model of src/utils.py: the scale-bias calibration (calibrate), the    *)
(* Kalman position/velocity estimator (kalman_filter), and the step-wise   *)
(* orientation filter with its workspace (apply_ahrs, msqError).           *)
(*                                                                         *)
(* Floating-point values are modelled by integers; the inputs are drawn    *)
(* from sets on which every operation of the code is exact (see the        *)
(* comments at each set).  The one non-finite value the code can produce   *)
(* on these inputs, NaN from 0/0, is modelled by the value NaN below.      *)
(***************************************************************************)
EXTENDS Integers, Sequences, FiniteSets, TLC

VARIABLES cal, kal, wsp, call, prev, calls

vars == <<cal, kal, wsp, call, prev, calls>>

(***************************************************************************)
(* Floating-point arithmetic with NaN propagation.                         *)
(***************************************************************************)
\* IEEE NaN: a value outside the range of every finite value of the model.
NaN == 0 - 1000000

IsNaN(x) == x = NaN

FAdd(a, b) == IF IsNaN(a) \/ IsNaN(b) THEN NaN ELSE a + b

FSub(a, b) == IF IsNaN(a) \/ IsNaN(b) THEN NaN ELSE a - b

FMul(a, b) == IF IsNaN(a) \/ IsNaN(b) THEN NaN ELSE a * b

\* numpy division of floats: 0/0 is NaN (a warning, no exception).  The
\* inputs keep every other quotient exact.
FDiv(a, b) ==
    IF IsNaN(a) \/ IsNaN(b) THEN NaN
    ELSE IF b = 0 THEN NaN
    ELSE IF a >= 0 THEN a \div b ELSE 0 - ((0 - a) \div b)

RECURSIVE FSum(_)
FSum(s) == IF s = <<>> THEN 0 ELSE FAdd(Head(s), FSum(Tail(s)))

HasNaN(v) == \E k \in DOMAIN v : IsNaN(v[k])

(***************************************************************************)
(* Vectors are sequences, matrices are sequences of rows.                  *)
(***************************************************************************)
Zeros(n) == [k \in 1..n |-> 0]

VAdd(u, v) == [k \in DOMAIN u |-> FAdd(u[k], v[k])]

VSub(u, v) == [k \in DOMAIN u |-> FSub(u[k], v[k])]

\* np.diag(v)
Diag(v) == [i \in DOMAIN v |-> [j \in DOMAIN v |-> IF i = j THEN v[i] ELSE 0]]

\* np.identity(n)
Identity(n) == Diag([k \in 1..n |-> 1])

ZeroMatrix(n) == Diag(Zeros(n))

\* M.dot(v) for a matrix M and a vector v
MatVec(M, v) ==
    [i \in DOMAIN M |-> FSum([k \in DOMAIN v |-> FMul(M[i][k], v[k])])]

\* A.dot(B) for matrices
MatMul(A, B) ==
    [i \in DOMAIN A |->
        [j \in DOMAIN B[1] |-> FSum([k \in DOMAIN B |-> FMul(A[i][k], B[k][j])])]]

Transpose(M) == [j \in DOMAIN M[1] |-> [i \in DOMAIN M |-> M[i][j]]]

MatAdd(A, B) == [i \in DOMAIN A |-> VAdd(A[i], B[i])]

MatSub(A, B) == [i \in DOMAIN A |-> VSub(A[i], B[i])]

(***************************************************************************)
(* calibrate(data, params)                                                 *)
(***************************************************************************)
\* The largest number of rows of a data array given to calibrate.
MaxRows == 2

\* Sample values of a data array.
DataValues == {0 - 1, 0, 2}

\* params = None
None == <<>>

\* params[0:3]
Scale(params) == SubSeq(params, 1, 3)

\* A slicing slip: params[2:5] taken for the bias.
BiasShifted(params) == SubSeq(params, 3, 5)

\* params[3:6]
Bias(params) == SubSeq(params, 4, 6)

\* data.dot(np.diag(scale)) + bias, the bias broadcast over the rows
calibrate(data, params) ==
    IF params = None THEN data
    ELSE LET scaled == MatMul(data, Diag(Scale(params)))
         IN  [r \in DOMAIN scaled |-> VAdd(scaled[r], Bias(params))]

\* The N x 3 data arrays of the model.
DataArrays ==
    UNION { [1..n -> [1..3 -> DataValues]] : n \in 1..MaxRows }

\* Scale and bias entries, and the orientation entries that follow them.
CalParams ==
    { s \o b \o o : s \in {<<1, 1, 1>>, <<2, 1, 3>>},
                    b \in {<<0, 0, 0>>, <<1, 0, 2>>},
                    o \in {<<>>, <<1, 0, 0, 0>>, <<0, 5, 0, 7>>} }
      \cup {None}

CalIdle == [pc |-> "idle", data |-> <<>>, params |-> None, out |-> <<>>]

InitCal ==
    /\ cal \in [pc : {"called"}, data : DataArrays, params : CalParams,
                out : {<<>>}]

Calibrate ==
    /\ cal.pc = "called"
    /\ cal' = [cal EXCEPT !.pc = "done", !.out = calibrate(cal.data, cal.params)]
    /\ UNCHANGED <<kal, wsp, call, prev, calls>>

(***************************************************************************)
(* kalman_filter(t, acc_lab, z, q, r, reset, time_period)                  *)
(***************************************************************************)
\* The largest number of samples of a run.
MaxSamples == 3

\* next_zero as kalman_filter starts it.
NextZeroInit == 0 - 1

\* Element i of a Python sequence (indices from 0).
At(s, i) == s[i + 1]

\* np.mean(ts[1:]-ts[0:-1]); the sample spacings of the model are uniform,
\* so the mean is exact.
MeanStep(ts) ==
    FDiv(FSum([k \in 1..(Len(ts) - 1) |-> FSub(ts[k + 1], ts[k])]), Len(ts) - 1)

\* The transition matrix F (A in apply_ahrs).
TransitionMatrix(dt) ==
    [i \in 1..6 |-> [j \in 1..6 |->
        IF i = j THEN 1 ELSE IF j = i + 3 THEN dt ELSE 0]]

\* The control matrix B; dt is even in the model, so dt**2/2 is exact.
ControlMatrix(dt) ==
    [i \in 1..6 |-> [j \in 1..3 |->
        IF i = j THEN FDiv(FMul(dt, dt), 2)
        ELSE IF i = j + 3 THEN dt ELSE 0]]

\* The matrices handed to np.linalg.inv in the model are diagonal.
IsDiagonal(M) == \A i \in DOMAIN M : \A j \in DOMAIN M : i # j => M[i][j] = 0

\* np.linalg.inv raises LinAlgError("Singular matrix") on these.
Singular(M) == \E i \in DOMAIN M : M[i][i] = 0

\* np.linalg.inv of a diagonal matrix whose diagonal entries are 1 or -1.
Inv(M) == Diag([i \in DOMAIN M |-> FDiv(1, M[i][i])])

\* state_naive = F.dot(state_guess[i-1]) + B.dot(acc_lab[i])
Predict(F, B, state_guess, acc_lab, i) ==
    VAdd(MatVec(F, At(state_guess, i - 1)), MatVec(B, At(acc_lab, i)))

\* P_naive = F.dot(P[i-1]).dot(F.transpose()) + Q
PredictCov(F, P, Q, i) ==
    MatAdd(MatMul(MatMul(F, At(P, i - 1)), Transpose(F)), Q)

\* The loop at lines 396-397: z[i] = [z[i][0], z[i][1], z[i][2], 0, 0, 0]
ClearVelocities(z, n) ==
    [k \in DOMAIN z |->
        IF k <= n THEN <<z[k][1], z[k][2], z[k][3], 0, 0, 0>> ELSE z[k]]

\* Lines 408-410: for i > 1 the velocity entries of z[i] are taken from
\* state_guess[i-1].
CarryVelocities(z, state_guess, i) ==
    IF i > 1
    THEN [z EXCEPT ![i + 1] =
            [j \in 1..6 |-> IF j >= 4 THEN At(state_guess, i - 1)[j] ELSE @[j]]]
    ELSE z

\* The timestamps of the model: ts[k] = t0 + k*step.
Timestamps(a) == [k \in 1..a.n |-> a.t0 + (k - 1) * a.step]

\* An acceleration history: at rest, or a push growing with the sample index.
AccLabOf(a) ==
    [k \in 1..a.n |-> IF a.acc = "rest" THEN <<0, 0, 0>> ELSE <<2 * k, 0, 0>>]

\* The caller's measurement list z.
MeasurementsOf(a) ==
    [k \in 1..a.n |->
        CASE a.z = "zeros" -> <<0, 0, 0, 0, 0, 0>>
          [] a.z = "pos"   -> <<k, 0, 0, 0, 0, 0>>
          [] OTHER         -> <<k, 0, 0, 1, 0, 0>>]

\* The noise vectors q and r.  On each axis at most one of them is
\* positive, which keeps every matrix of the run diagonal and the gain exact.
ProcessNoise(a) ==
    CASE a.noise = "process" -> <<1, 1, 1, 1, 1, 1>>
      [] a.noise = "mixed"   -> <<1, 1, 1, 0, 0, 0>>
      [] OTHER               -> <<0, 0, 0, 0, 0, 0>>

MeasurementNoise(a) ==
    CASE a.noise = "measure" -> <<1, 1, 1, 1, 1, 1>>
      [] a.noise = "mixed"   -> <<0, 0, 0, 1, 1, 1>>
      [] OTHER               -> <<0, 0, 0, 0, 0, 0>>

\* Line 387 with q and r taken for each other.
NoiseMatricesSwapped(a) ==
    [Q |-> Diag(MeasurementNoise(a)), R |-> Diag(ProcessNoise(a))]

\* Q,R = np.matrix(np.diag(q)),np.matrix(np.diag(r))
NoiseMatrices(a) ==
    [Q |-> Diag(ProcessNoise(a)), R |-> Diag(MeasurementNoise(a))]

KalmanArgs ==
    [n : 2..MaxSamples, t0 : {0, 10}, step : {2, 4}, time_period : {3, 5},
     acc : {"rest", "push"}, z : {"zeros", "pos", "full"},
     noise : {"none", "process", "measure", "mixed"}, reset : BOOLEAN]

KalIdle ==
    [pc |-> "idle", args |-> <<>>, i |-> 0, next_zero |-> 0, dt |-> 0,
     state_guess |-> <<>>, P |-> <<>>, z |-> <<>>, z0 |-> <<>>,
     zeroed |-> {}, run |-> 0, first |-> <<>>]

InitKalman ==
    \E a \in KalmanArgs :
        kal = [KalIdle EXCEPT !.pc = "called", !.args = a, !.run = 1,
                              !.z = MeasurementsOf(a), !.z0 = MeasurementsOf(a)]

\* Lines 343-401: everything before the loop.
KalmanEnter ==
    /\ kal.pc = "called"
    /\ LET a == kal.args
       IN  kal' = [kal EXCEPT
                !.pc = "loop",
                !.i = 1,
                !.dt = MeanStep(Timestamps(a)),
                !.state_guess = [k \in 1..a.n |-> Zeros(6)],
                !.P = [k \in 1..a.n |-> ZeroMatrix(6)],
                !.next_zero = NextZeroInit,
                !.zeroed = {},
                !.z = ClearVelocities(kal.z, a.n)]
    /\ UNCHANGED <<cal, wsp, call, prev, calls>>

\* Lines 403-423: one iteration of the filter loop.
KalmanStep ==
    /\ kal.pc = "loop"
    /\ kal.i < kal.args.n
    /\ LET a       == kal.args
           i       == kal.i
           F       == TransitionMatrix(kal.dt)
           B       == ControlMatrix(kal.dt)
           Q       == NoiseMatrices(a).Q
           R       == NoiseMatrices(a).R
           naive   == Predict(F, B, kal.state_guess, AccLabOf(a), i)
           P_naive == PredictCov(F, kal.P, Q, i)
           z1      == CarryVelocities(kal.z, kal.state_guess, i)
           S       == MatAdd(P_naive, R)
       IN  IF Singular(S)
           THEN kal' = [kal EXCEPT !.pc = "failed", !.z = z1]
           ELSE LET K     == MatMul(P_naive, Inv(S))
                    y     == VSub(At(z1, i), naive)
                    est   == VAdd(naive, MatVec(K, y))
                    cov   == MatMul(MatSub(Identity(6), K), P_naive)
                    zero  == a.reset /\ At(Timestamps(a), i) > kal.next_zero
                IN  kal' = [kal EXCEPT
                        !.z = z1,
                        !.state_guess[i + 1] = IF zero THEN Zeros(6) ELSE est,
                        !.P[i + 1] = IF zero THEN ZeroMatrix(6) ELSE cov,
                        !.next_zero = IF zero THEN @ + a.time_period ELSE @,
                        !.zeroed = IF zero THEN @ \cup {i} ELSE @,
                        !.i = i + 1]
    /\ UNCHANGED <<cal, wsp, call, prev, calls>>

\* Line 428: return state_guess.
KalmanReturn ==
    /\ kal.pc = "loop"
    /\ kal.i = kal.args.n
    /\ kal' = [kal EXCEPT !.pc = "done",
                          !.first = IF kal.run = 1 THEN kal.state_guess ELSE @]
    /\ UNCHANGED <<cal, wsp, call, prev, calls>>

\* The caller calls again with the same arguments, the same list z included.
KalmanAgain ==
    /\ kal.pc = "done"
    /\ kal.run = 1
    /\ kal' = [kal EXCEPT !.pc = "called", !.run = 2]
    /\ UNCHANGED <<cal, wsp, call, prev, calls>>

(***************************************************************************)
(* Quaternions.  The orientations of the model are the unit quaternions    *)
(* with integer components (1, i, j, k and their negatives), on which the  *)
(* products and rotations below are exact.                                 *)
(***************************************************************************)
\* np.linalg.norm: the inputs have one non-zero component, so the root is
\* an integer.
Norm(v) ==
    LET ss == FSum([k \in DOMAIN v |-> FMul(v[k], v[k])])
    IN  IF IsNaN(ss) THEN NaN ELSE CHOOSE r \in 0..ss : r * r = ss

\* q0/np.linalg.norm(q0); Quaternion(q) normalizes in the same way.
Normalize(v) == LET r == Norm(v) IN [k \in DOMAIN v |-> FDiv(v[k], r)]

\* The Hamilton product.
QMul(p, q) ==
    << FSub(FSub(FSub(FMul(p[1], q[1]), FMul(p[2], q[2])), FMul(p[3], q[3])),
            FMul(p[4], q[4])),
       FSub(FAdd(FAdd(FMul(p[1], q[2]), FMul(p[2], q[1])), FMul(p[3], q[4])),
            FMul(p[4], q[3])),
       FAdd(FAdd(FSub(FMul(p[1], q[3]), FMul(p[2], q[4])), FMul(p[3], q[1])),
            FMul(p[4], q[2])),
       FAdd(FSub(FAdd(FMul(p[1], q[4]), FMul(p[2], q[3])), FMul(p[3], q[2])),
            FMul(p[4], q[1])) >>

\* The turn a gyro sample makes in one step: none for a zero rate, a half
\* turn about the axis of the rate otherwise.
GyroQuat(gyr) == IF gyr = <<0, 0, 0>> THEN <<1, 0, 0, 0>> ELSE <<0>> \o gyr

\* madgwick.updateIMU / updateMARG of the ahrs library: the new quaternion
\* is a function of the previous one and the sample, of unit norm when the
\* previous one is, and NaN when the previous one is.  The library's
\* accelerometer and magnetometer corrections are left out.
MadgwickUpdate(q, gyr) == Normalize(QMul(q, GyroQuat(gyr)))

\* The rotation matrix of a quaternion (Quaternion.to_DCM).
DCM(q) ==
    LET w == q[1]  x == q[2]  y == q[3]  z == q[4]
        D(a, b) == FSub(1, FMul(2, FAdd(FMul(a, a), FMul(b, b))))
        O(a, b, c, d) == FMul(2, FAdd(FMul(a, b), FMul(c, d)))
        M(a, b, c, d) == FMul(2, FSub(FMul(a, b), FMul(c, d)))
    IN  << << D(y, z),       M(x, y, w, z), O(x, z, w, y) >>,
           << O(x, y, w, z), D(x, z),       M(y, z, w, x) >>,
           << M(x, z, w, y), O(y, z, w, x), D(x, y) >> >>

\* Quaternion(q).rotate(v)
Rotate(q, v) == MatVec(DCM(Normalize(q)), v)

(***************************************************************************)
(* apply_ahrs and msqError.  A workspace is a dict from keys to arrays;    *)
(* an absent key is modelled by the empty array.                           *)
(***************************************************************************)
Keys == {"Q", "Q_quat", "acc_lab", "state", "acc_scratch"}

Absent == <<>>

EmptyDict == [k \in Keys |-> Absent]

Has(d, k) == d[k] # Absent

\* The dict objects of the program: the default of apply_ahrs (created once,
\* when the function is defined), the default of msqError, and a dict the
\* caller owns and passes.
WsNames == {"ahrs_default", "msq_default", "caller"}

WsOf(a) ==
    IF a.ws = "given" THEN "caller"
    ELSE IF a.kind = "msq" THEN "msq_default" ELSE "ahrs_default"

\* The lengths of the four sequences of a call; one of them may be a
\* sample short.
LenOf(a, s) == IF a.short = s THEN a.n - 1 ELSE a.n

\* The timestamps of a call: 0, 2, 4, ...
TsOf(a) == [k \in 1..LenOf(a, "ts") |-> 2 * (k - 1)]

\* The gravity vector g.
Gravity == <<0, 0, 10>>

\* The sensor at rest, or turning about x while pushed along x.
GyroOf(a) ==
    [k \in 1..LenOf(a, "gyro") |->
        IF a.motion = "move" THEN <<1, 0, 0>> ELSE <<0, 0, 0>>]

AccOf(a) ==
    [k \in 1..LenOf(a, "acc") |->
        IF a.motion = "move" THEN <<2 * k, 0, 10>> ELSE Gravity]

\* Lines 183-184 alone: the magnetometer and the timestamps are not compared.
LengthsOkNoTs(a) ==
    /\ LenOf(a, "gyro") = LenOf(a, "acc")
    /\ LenOf(a, "acc") = LenOf(a, "mag")

\* Lines 183-185.
LengthsOk(a) ==
    /\ LenOf(a, "gyro") = LenOf(a, "acc")
    /\ LenOf(a, "acc") = LenOf(a, "mag")
    /\ LenOf(a, "mag") = LenOf(a, "ts")

\* np.tile(row, (n, 1))
Tile(row, n) == [k \in 1..n |-> row]

\* d[key][t] = v; an IndexError when t is past the end of the array.
InRange(d, key, t) == t + 1 <= Len(d[key])

SetRow(d, key, t, v) == [d EXCEPT ![key][t + 1] = v]

Fail(c, e) == [c EXCEPT !.pc = "failed", !.err = e]

\* Lines 182-253 of apply_ahrs on the dict d: validation, then allocation.
EnterOn(d, c) ==
    LET a == c.a IN
    IF ~LengthsOk(a) THEN [d |-> d, c |-> Fail(c, "AssertionError")]
    ELSE
    LET q0 == Normalize(a.q0) IN
    IF Len(q0) # 4 THEN [d |-> d, c |-> Fail(c, "AssertionError")]
    ELSE
    LET ts == TsOf(a)
        n  == Len(ts)
        d1 == IF Has(d, "Q") THEN d ELSE [d EXCEPT !["Q"] = Tile(q0, n)]
        d2 == SetRow(d1, "Q", 0, q0)
        d3 == IF Has(d2, "Q_quat") THEN d2
              ELSE [d2 EXCEPT !["Q_quat"] = Tile(Normalize(q0), n)]
        d4 == SetRow(d3, "Q_quat", 0, Normalize(q0))
        d5 == IF Has(d4, "acc_lab") THEN d4
              ELSE [d4 EXCEPT !["acc_lab"] = Tile(Zeros(3), n)]
        d6 == IF a.position /\ ~Has(d5, "state")
              THEN [d5 EXCEPT !["state"] = Tile(Zeros(6), n)] ELSE d5
    IN  [d |-> d6,
         c |-> [c EXCEPT !.pc = "loop", !.t = 1, !.dt = MeanStep(ts),
                         !.next_zero = IF a.position THEN a.zero_period ELSE @]]

\* Line 271: the state of step t from the state and the lab-frame
\* acceleration of step t-1.
AhrsPredict(A, B, state, acc_lab, t) ==
    VAdd(MatVec(A, At(state, t - 1)), MatVec(B, At(acc_lab, t - 1)))

\* Lines 256-277: iteration t of the loop on the dict d.  The assignments
\* made before an IndexError stay in the dict.
StepOn(d, c) ==
    LET a == c.a
        t == c.t
        updated == a.filter \in {"IMU", "MARG"}
        q == IF updated THEN MadgwickUpdate(At(d["Q"], t - 1), At(GyroOf(a), t))
             ELSE At(d["Q"], t)
    IN
    IF ~InRange(d, "Q", t) THEN [d |-> d, c |-> Fail(c, "IndexError")]
    ELSE
    LET d1 == IF updated THEN SetRow(d, "Q", t, q) ELSE d IN
    IF ~InRange(d1, "Q_quat", t) THEN [d |-> d1, c |-> Fail(c, "IndexError")]
    ELSE
    LET d2 == SetRow(d1, "Q_quat", t, Normalize(q)) IN
    IF ~InRange(d2, "acc_lab", t) THEN [d |-> d2, c |-> Fail(c, "IndexError")]
    ELSE
    LET d3 == SetRow(d2, "acc_lab", t, VSub(Rotate(q, At(c.acc, t)), Gravity)) IN
    IF ~a.position THEN [d |-> d3, c |-> [c EXCEPT !.t = t + 1]]
    ELSE
    IF ~InRange(d3, "state", t) THEN [d |-> d3, c |-> Fail(c, "IndexError")]
    ELSE
    LET A    == TransitionMatrix(c.dt)
        B    == ControlMatrix(c.dt)
        d4   == SetRow(d3, "state", t, AhrsPredict(A, B, d3["state"], d3["acc_lab"], t))
        zero == At(TsOf(a), t) > c.next_zero
    IN  [d |-> IF zero THEN SetRow(d4, "state", t, Zeros(6)) ELSE d4,
         c |-> [c EXCEPT !.t = t + 1,
                         !.next_zero = IF zero THEN At(TsOf(a), t) + a.zero_period ELSE @,
                         !.zeroed = IF zero THEN @ \cup {t} ELSE @]]

\* Lines 278-280: the keys of the arrays apply_ahrs returns.
Returned(a) ==
    IF a.position THEN <<"acc_lab", "Q", "state">> ELSE <<"acc_lab", "Q">>

\* idx_filter(t, data, intervals): the rows whose time lies inside one of
\* the intervals.
InIntervals(x, intervals) ==
    \E k \in DOMAIN intervals : intervals[k][1] < x /\ x < intervals[k][2]

RECURSIVE Select(_, _, _)
Select(ts, data, intervals) ==
    IF ts = <<>> THEN <<>>
    ELSE (IF InIntervals(Head(ts), intervals) THEN <<Head(data)>> ELSE <<>>)
         \o Select(Tail(ts), Tail(data), intervals)

\* The sum and the count behind 3*np.mean(acc_scratch**2): the mean is
\* their quotient (NaN for no element).
SumOfSquares(rows) ==
    FSum([r \in DOMAIN rows |-> FSum([k \in 1..3 |-> FMul(rows[r][k], rows[r][k])])])

MeanSquare3(rows) == <<3 * SumOfSquares(rows), 3 * Len(rows)>>

\* The quiet intervals given to msqError.
Intervals == << <<1, 100>> >>

\* The arguments of the calls.  q0 is not of unit norm, of zero norm, or
\* not of length 4; reset is given only with position.
Q0s == {<<2, 0, 0, 0>>, <<0, 0, 0, 0>>, <<1, 0, 0>>}

AhrsArgs ==
    { [kind |-> "ahrs", n |-> n, short |-> "none", q0 |-> q, motion |-> m,
       position |-> pr[1], reset |-> pr[2], zero_period |-> 3,
       filter |-> "IMU", ws |-> w, params |-> None] :
      n \in 2..MaxSamples, q \in Q0s, m \in {"rest", "move"},
      pr \in {<<FALSE, TRUE>>, <<TRUE, TRUE>>, <<TRUE, FALSE>>},
      w \in {"default", "given"} }

\* Calls whose sequences differ in length.
MismatchArgs ==
    { [kind |-> "ahrs", n |-> n, short |-> s, q0 |-> <<2, 0, 0, 0>>,
       motion |-> "move", position |-> p, reset |-> TRUE, zero_period |-> 3,
       filter |-> "IMU", ws |-> w, params |-> None] :
      n \in 2..MaxSamples, s \in {"gyro", "acc", "mag", "ts"}, p \in BOOLEAN,
      w \in {"default", "given"} }

\* msqError: params[6:] is the initial quaternion; apply_ahrs runs with its
\* defaults otherwise.
MsqParams == {<<1, 1, 1, 0, 0, 0, 1, 0, 0, 0>>, <<2, 1, 1, 2, 0, 0, 1, 0, 0, 0>>}

MsqArgs ==
    { [kind |-> "msq", n |-> n, short |-> "none", q0 |-> SubSeq(p, 7, Len(p)),
       motion |-> m, position |-> FALSE, reset |-> TRUE, zero_period |-> 3,
       filter |-> "IMU", ws |-> w, params |-> p] :
      n \in 2..MaxSamples, p \in MsqParams, m \in {"move"},
      w \in {"default", "given"} }

\* The number of calls the caller makes.
MaxCalls == 2

CallIdle ==
    [pc |-> "idle", a |-> <<>>, t |-> 0, next_zero |-> 0, dt |-> 0,
     err |-> "", zeroed |-> {}, acc |-> <<>>, out |-> <<>>]

NoPrev == [set |-> FALSE, ws |-> "", ret |-> EmptyDict]

InitAhrs ==
    /\ wsp = [w \in WsNames |-> EmptyDict]
    /\ call = CallIdle
    /\ prev = NoPrev
    /\ calls = 0

\* A call of apply_ahrs, up to the start of its loop.
ApplyAhrs ==
    /\ call.pc = "idle"
    /\ calls < MaxCalls
    /\ calls' = calls + 1
    /\ \E a \in AhrsArgs \cup MismatchArgs :
        LET w == WsOf(a)
            r == EnterOn(wsp[w], [CallIdle EXCEPT !.a = a, !.acc = AccOf(a)])
        IN  /\ wsp' = [wsp EXCEPT ![w] = r.d]
            /\ call' = r.c
    /\ UNCHANGED <<cal, kal, prev>>

\* A call of msqError: lines 305-314, up to the start of the loop of the
\* apply_ahrs it calls.
MsqError ==
    /\ call.pc = "idle"
    /\ calls < MaxCalls
    /\ calls' = calls + 1
    /\ \E a \in MsqArgs :
        LET w  == WsOf(a)
            d0 == [wsp[w] EXCEPT !["acc_scratch"] = calibrate(AccOf(a), a.params)]
            r  == EnterOn(d0, [CallIdle EXCEPT !.a = a, !.acc = d0["acc_scratch"]])
        IN  /\ wsp' = [wsp EXCEPT ![w] = r.d]
            /\ call' = r.c
    /\ UNCHANGED <<cal, kal, prev>>

\* One iteration of the loop of apply_ahrs.
AhrsStep ==
    /\ call.pc = "loop"
    /\ call.t < Len(TsOf(call.a))
    /\ LET w == WsOf(call.a)
           r == StepOn(wsp[w], call)
       IN  /\ wsp' = [wsp EXCEPT ![w] = r.d]
           /\ call' = r.c
    /\ UNCHANGED <<cal, kal, prev, calls>>

\* apply_ahrs returns its arrays.  prev keeps what the arrays held when the
\* latest call without a workspace argument returned them to its caller.
AhrsReturn ==
    /\ call.pc = "loop"
    /\ call.t = Len(TsOf(call.a))
    /\ call.a.kind = "ahrs"
    /\ call' = [call EXCEPT !.pc = "done"]
    /\ prev' = IF call.a.ws = "default"
               THEN [set |-> TRUE, ws |-> WsOf(call.a),
                     ret |-> [k \in Keys |->
                         IF \E j \in DOMAIN Returned(call.a) : Returned(call.a)[j] = k
                         THEN wsp[WsOf(call.a)][k] ELSE Absent]]
               ELSE prev
    /\ UNCHANGED <<cal, kal, wsp, calls>>

\* Lines 314-320 of msqError, after apply_ahrs has returned.  The boolean
\* mask of idx_filter has one entry per timestamp: an IndexError when the
\* array has another number of rows.
MsqReturn ==
    /\ call.pc = "loop"
    /\ call.t = Len(TsOf(call.a))
    /\ call.a.kind = "msq"
    /\ LET w   == WsOf(call.a)
           lab == wsp[w]["acc_lab"]
           ts  == TsOf(call.a)
       IN  IF Len(lab) # Len(ts)
           THEN /\ wsp' = [wsp EXCEPT ![w]["acc_scratch"] = lab]
                /\ call' = Fail(call, "IndexError")
           ELSE LET kept == Select(ts, lab, Intervals)
                IN  /\ wsp' = [wsp EXCEPT ![w]["acc_scratch"] = kept]
                    /\ call' = [call EXCEPT !.pc = "done", !.out = MeanSquare3(kept)]
    /\ UNCHANGED <<cal, kal, prev, calls>>

\* The caller goes on to its next call.
Finish ==
    /\ call.pc \in {"done", "failed"}
    /\ call' = CallIdle
    /\ UNCHANGED <<cal, kal, wsp, prev, calls>>

(***************************************************************************)
(* The specifications.                                                     *)
(***************************************************************************)
Init ==
    /\ InitAhrs
    /\ cal = CalIdle
    /\ kal = KalIdle

Next == ApplyAhrs \/ MsqError \/ AhrsStep \/ AhrsReturn \/ MsqReturn \/ Finish

Spec == Init /\ [][Next]_vars

InitK ==
    /\ InitKalman
    /\ cal = CalIdle
    /\ wsp = [w \in WsNames |-> EmptyDict]
    /\ call = CallIdle
    /\ prev = NoPrev
    /\ calls = 0

NextK == KalmanEnter \/ KalmanStep \/ KalmanReturn \/ KalmanAgain

SpecKalman == InitK /\ [][NextK]_vars

InitC ==
    /\ InitCal
    /\ kal = KalIdle
    /\ wsp = [w \in WsNames |-> EmptyDict]
    /\ call = CallIdle
    /\ prev = NoPrev
    /\ calls = 0

NextC == Calibrate

SpecCal == InitC /\ [][NextC]_vars

(***************************************************************************)
(* The run of apply_ahrs the claims compare with: the same call on a dict  *)
(* constructed for it.                                                     *)
(***************************************************************************)
RECURSIVE RunOn(_, _)
RunOn(d, c) ==
    IF c.pc = "loop" /\ c.t < Len(TsOf(c.a))
    THEN LET r == StepOn(d, c) IN RunOn(r.d, r.c)
    ELSE [d |-> d, c |-> c]

FreshRun(a) ==
    LET r == EnterOn(EmptyDict, [CallIdle EXCEPT !.a = a, !.acc = AccOf(a)])
    IN  RunOn(r.d, r.c)

Active == call.pc # "idle"

\* The four sequences of the call have one length.
SameLengths(a) ==
    Cardinality({LenOf(a, s) : s \in {"gyro", "acc", "mag", "ts"}}) = 1

\* A quaternion argument of zero norm, or not of length 4.
Degenerate(q0) == Len(q0) # 4 \/ \A k \in DOMAIN q0 : q0[k] = 0

(***************************************************************************)
(* The claims.                                                             *)
(***************************************************************************)

\* C1: two calls of apply_ahrs that are given no workspace do not write the
\* same arrays: while and after the later call runs, the arrays the earlier
\* call returned hold what they held when it returned.  (Stated for calls
\* with a valid q0, as are C2, C8 and C9.)
C1_PrivateWorkspace ==
    (/\ Active
     /\ call.a.kind = "ahrs"
     /\ call.a.ws = "default"
     /\ ~Degenerate(call.a.q0)
     /\ prev.set
     /\ prev.ws = "ahrs_default"
     /\ ~HasNaN(prev.ret["Q"][1]))
    => \A k \in Keys :
          Has(prev.ret, k) => wsp["ahrs_default"][k] = prev.ret[k]

\* C2: a call of apply_ahrs on a workspace that earlier calls have used ends
\* as the same call on an empty workspace ends, and returns the same
\* histories, one entry per sample.
C2_ReuseLikeFresh ==
    (/\ call.pc \in {"done", "failed"}
     /\ call.a.kind = "ahrs"
     /\ SameLengths(call.a)
     /\ ~Degenerate(call.a.q0))
    => LET f == FreshRun(call.a)
           d == wsp[WsOf(call.a)]
       IN  IF f.c.pc = "failed"
           THEN call.pc = "failed" /\ call.err = f.c.err
           ELSE /\ call.pc = "done"
                /\ \A j \in DOMAIN Returned(call.a) :
                      /\ d[Returned(call.a)[j]] = f.d[Returned(call.a)[j]]
                      /\ Len(d[Returned(call.a)[j]]) = Len(TsOf(call.a))

\* C3: with reset enabled and samples less than time_period apart,
\* kalman_filter never zeroes the state at two consecutive samples.
C3_NoConsecutiveZeroing ==
    (/\ kal.pc \in {"loop", "done", "failed"}
     /\ kal.args.reset
     /\ kal.args.step < kal.args.time_period)
    => \A i \in kal.zeroed : (i + 1) \notin kal.zeroed

\* C4 as first stated: with q and r all zero, zero acceleration and reset
\* disabled, kalman_filter completes and every state estimate is the zero
\* vector.
C4_NoDrift ==
    (/\ kal.pc \in {"loop", "done", "failed"}
     /\ kal.args.noise = "none"
     /\ kal.args.acc = "rest"
     /\ ~kal.args.reset)
    => /\ kal.pc # "failed"
       /\ \A k \in DOMAIN kal.state_guess : kal.state_guess[k] = Zeros(6)

\* C4, amended: with q all zero, r all positive, zero acceleration and reset
\* disabled, kalman_filter completes and every state estimate is the zero
\* vector, whatever the measurements z.
C4_NoDriftUnderMeasurementNoise ==
    (/\ kal.pc \in {"loop", "done", "failed"}
     /\ kal.args.noise = "measure"
     /\ kal.args.acc = "rest"
     /\ ~kal.args.reset)
    => /\ kal.pc # "failed"
       /\ \A k \in DOMAIN kal.state_guess : kal.state_guess[k] = Zeros(6)

\* Such a run has returned, over three samples or more and with non-zero
\* measurements.
C4_Witness ==
    /\ kal.pc = "done"
    /\ kal.args.noise = "measure"
    /\ kal.args.acc = "rest"
    /\ ~kal.args.reset
    /\ kal.args.n >= 3
    /\ kal.args.z = "full"
    /\ \A k \in DOMAIN kal.state_guess : kal.state_guess[k] = Zeros(6)

\* C5: a call of apply_ahrs whose gyro, accelerometer, magnetometer and
\* timestamp sequences are not of one length fails with an assertion error
\* in its first step, before the loop, and leaves every workspace as it was.
C5_MismatchFailsUntouched ==
    [][(/\ call.pc = "idle"
        /\ call'.pc # "idle"
        /\ call'.a.kind = "ahrs"
        /\ ~SameLengths(call'.a))
       => (/\ call'.pc = "failed"
           /\ call'.err = "AssertionError"
           /\ call'.t = 0
           /\ wsp' = wsp)]_vars

\* A call with sequences of different lengths has failed on a workspace
\* that holds the arrays of an earlier call.
C5_Witness ==
    /\ call.pc = "failed"
    /\ call.err = "AssertionError"
    /\ ~SameLengths(call.a)
    /\ Has(wsp[WsOf(call.a)], "Q")
    /\ Has(wsp[WsOf(call.a)], "acc_lab")

\* C6: a call of apply_ahrs with a degenerate q0 (zero norm, or not of
\* length 4) fails at entry, and no workspace holds a quaternion history
\* whose first entry is NaN or not of unit norm.
C6_DegenerateQ0Rejected ==
    /\ (Active /\ call.a.kind = "ahrs" /\ Degenerate(call.a.q0))
          => call.pc = "failed"
    /\ \A w \in WsNames :
          Has(wsp[w], "Q") => ~HasNaN(wsp[w]["Q"][1]) /\ Norm(wsp[w]["Q"][1]) = 1

C8_StateFromCurrentAcc ==
    (/\ call.pc \in {"loop", "done"}
     /\ call.a.kind = "ahrs"
     /\ call.a.position
     /\ ~Degenerate(call.a.q0))
    => LET d == wsp[WsOf(call.a)]
       IN  \A t \in 1..(call.t - 1) :
              t \notin call.zeroed =>
                 At(d["state"], t) =
                    Predict(TransitionMatrix(call.dt), ControlMatrix(call.dt),
                            d["state"], d["acc_lab"], t)

\* C9: with reset=False no step zeroes the state, in apply_ahrs with
\* position tracking and in kalman_filter.
C9_NoZeroingWhenDisabled ==
    /\ (/\ Active
        /\ call.a.kind = "ahrs"
        /\ call.a.position
        /\ ~call.a.reset
        /\ ~Degenerate(call.a.q0))
          => call.zeroed = {}
    /\ (kal.pc \in {"loop", "done", "failed"} /\ ~kal.args.reset)
          => kal.zeroed = {}

\* C10: when kalman_filter has returned, the caller's list z holds what it
\* held before the call, and a second call with the same arguments returns
\* the state history of the first.
C10_PureComputation ==
    kal.pc = "done"
    => /\ kal.z = kal.z0
       /\ kal.run = 2 => kal.state_guess = kal.first

(***************************************************************************)
(* Checks of the model itself.                                             *)
(***************************************************************************)
\* The matrix handed to np.linalg.inv is diagonal with entries 0 or 1, as
\* Singular and Inv take it to be.
InverseDomainOK ==
    (kal.pc = "loop" /\ kal.i < kal.args.n)
    => LET S == MatAdd(PredictCov(TransitionMatrix(kal.dt), kal.P,
                                  NoiseMatrices(kal.args).Q, kal.i),
                       NoiseMatrices(kal.args).R)
       IN  IsDiagonal(S) /\ \A i \in DOMAIN S : S[i][i] \in {0, 1}

\* The halves of C9 and C10 that hold of kalman_filter.
KalmanNoZeroingWhenDisabled ==
    (kal.pc \in {"loop", "done", "failed"} /\ ~kal.args.reset)
    => kal.zeroed = {}

KalmanSecondCallSame ==
    (kal.pc = "done" /\ kal.run = 2) => kal.state_guess = kal.first

\* No finite value of the model reaches the value that stands for NaN, and
\* the quaternions stored are NaN or of unit norm.
QuaternionsOK ==
    \A w \in WsNames : Has(wsp[w], "Q") =>
        \A k \in DOMAIN wsp[w]["Q"] :
            LET q == wsp[w]["Q"][k]
            IN  \/ \A j \in 1..4 : IsNaN(q[j])
                \/ ~HasNaN(q) /\ Norm(q) = 1

====
